---- MODULE Spec2Model ----
(***************************************************************************)
(* SMBIOS discovery, validation and decoding of system/smbios.c:           *)
(*   find_smbios_adr            entry point locator (EFI tables, BIOS scan)*)
(*   smbios_init                checksum, version gate, structure walk     *)
(*   get_tstruct_string         1-based string lookup after a structure    *)
(*   print_smbios_startup_info  presenter of manufacturer / product name   *)
(* Three specifications share the variables:                               *)
(*   Spec        one boot: smbios_init step by step, then the presenter    *)
(*   SpecLocate  find_smbios_adr over boot parameters and low memory       *)
(*   SpecStr     get_tstruct_string over one structure and an index        *)
(***************************************************************************)
EXTENDS Integers, Sequences, FiniteSets, TLC

VARIABLES
    pc,               \* position of the running function
    x86_64,           \* build: __x86_64__ defined
    loader_signature, \* boot_params->efi_info.loader_signature
    mappable,         \* physical addresses map_region can map
    config_tables,    \* EFI configuration table array: <<[guid, table], ...>>
    lowmem,           \* 4-byte words of physical memory at the probed addresses
    smb_adr,          \* smbios_init: smb_adr (find_smbios_adr's result)
    scanned,          \* the legacy BIOS signature scan was executed
    eps,              \* bytes of the entry point structure at smb_adr
    mem,              \* byte memory holding the structure table
    table,            \* the records the firmware laid out in mem
    damage,           \* how the firmware's table is malformed ("none" if not)
    checksum,         \* smbios_init: int8_t checksum (as a residue mod 256)
    dmi,              \* smbios_init: char * dmi
    tstruct_count,    \* smbios_init: int tstruct_count
    bodies,           \* number of executions of the walk's loop body
    dmi_system_info,  \* global struct system_map * dmi_system_info (0 = null)
    ret,              \* smbios_init's return value ("none" while running)
    fail,             \* which return statement gave -1
    nullDeref,        \* a null pointer was dereferenced
    printed,          \* what print_smbios_startup_info handed to prints()
    hdr,              \* get_tstruct_string: header
    n,                \* get_tstruct_string: n
    str               \* get_tstruct_string: returned pointer ("none" before)

vars == <<pc, x86_64, loader_signature, mappable, config_tables, lowmem,
          smb_adr, scanned, eps, mem, table, damage, checksum, dmi,
          tstruct_count, bodies, dmi_system_info, ret, fail, nullDeref,
          printed, hdr, n, str>>

locVars == <<x86_64, loader_signature, mappable, config_tables, lowmem>>
imgVars == <<eps, mem, table, damage>>
strVars == <<hdr, n, str>>

----------------------------------------------------------------------------
(* Bounds of the model *)

\* most records in a structure table
MaxStructs == 2
\* most entries in the EFI configuration table array
MaxCfg == 2
\* most strings in a string area of SpecStr
MaxStrs == 2
\* bytes of memory behind the structure table
MemSlack == 3

----------------------------------------------------------------------------
(* Program constants *)

\* the GUIDs as the 16 bytes memcmp compares (the integer fields little-endian)
SMBIOS2_GUID == <<49, 45, 157, 235, 136, 45, 211, 17,
                  154, 22, 0, 144, 39, 63, 193, 77>>
SMBIOS3_GUID == <<68, 21, 253, 242, 148, 151, 44, 74,
                  153, 46, 229, 187, 207, 32, 227, 148>>

EFI32_LOADER_SIGNATURE == "EL32"
EFI64_LOADER_SIGNATURE == "EL64"

\* dmi_search_start, the scan's length and its step
DmiSearchStart == 983040
DmiSearchLen == 1048560
DmiSearchStep == 16

\* "_SM_", and the four bytes "_SM3" an SMBIOS 3 entry point starts with
Anchor == <<95, 83, 77, 95>>
Anchor3 == <<95, 83, 77, 51>>
NoAnchor == <<0, 0, 0, 0>>

\* the structure type smbios_init looks for
TargetType == 2

Min(S) == CHOOSE x \in S : \A y \in S : x <= y

----------------------------------------------------------------------------
(* find_smbios_adr *)

\* physical addresses of the EFI system table and of its config table array
SysTabAddr == 4096
CfgTabAddr == 8192
\* addresses an EFI configuration table entry may carry
EpsAddrA == 40960
EpsAddrB == 45056

\* map_region: the address itself when the region can be mapped, else 0
map_region(addr) == IF addr \in mappable THEN addr ELSE 0

\* the configuration table scan: the last entry with the SMBIOS 2 GUID wins
RECURSIVE ScanConfigTables(_, _, _)
ScanConfigTables(tabs, i, table_addr) ==
    IF i > Len(tabs) THEN table_addr
    ELSE ScanConfigTables(tabs, i + 1,
             IF tabs[i].guid = SMBIOS2_GUID THEN tabs[i].table ELSE table_addr)

find_smbios_in_efi32_system_table(system_table) ==
    LET tabs == map_region(CfgTabAddr)
    IN  IF tabs = 0 THEN 0 ELSE ScanConfigTables(config_tables, 1, 0)

find_smbios_in_efi64_system_table(system_table) ==
    LET tabs == map_region(CfgTabAddr)
    IN  IF tabs = 0 THEN 0 ELSE ScanConfigTables(config_tables, 1, 0)

\* the for loop over the legacy window: first hit in address order, else 0
BiosScan ==
    LET hits == {a \in DOMAIN lowmem :
                    /\ a >= DmiSearchStart
                    /\ a < DmiSearchStart + DmiSearchLen
                    /\ (a - DmiSearchStart) % DmiSearchStep = 0
                    /\ lowmem[a] = Anchor}
    IN  IF hits = {} THEN 0 ELSE Min(hits)

\* Efi32Path returning only a table it found, else going on to the next branch
Efi32PathFallback ==
    IF /\ loader_signature = EFI32_LOADER_SIGNATURE
       /\ map_region(map_region(SysTabAddr)) # 0
       /\ find_smbios_in_efi32_system_table(SysTabAddr) # 0
    THEN [taken |-> TRUE, adr |-> find_smbios_in_efi32_system_table(SysTabAddr)]
    ELSE [taken |-> FALSE, adr |-> 0]

\* the EFI32 branch: [taken |-> it returned, adr |-> what it returned]
Efi32Path ==
    IF loader_signature = EFI32_LOADER_SIGNATURE
    THEN LET system_table_addr == map_region(map_region(SysTabAddr))
         IN  IF system_table_addr # 0
             THEN [taken |-> TRUE,
                   adr |-> find_smbios_in_efi32_system_table(system_table_addr)]
             ELSE [taken |-> FALSE, adr |-> 0]
    ELSE [taken |-> FALSE, adr |-> 0]

\* the EFI64 branch, compiled only under __x86_64__
Efi64Path ==
    IF x86_64 /\ loader_signature = EFI64_LOADER_SIGNATURE
    THEN LET system_table_addr == map_region(SysTabAddr)
         IN  IF system_table_addr # 0
             THEN [taken |-> TRUE,
                   adr |-> find_smbios_in_efi64_system_table(system_table_addr)]
             ELSE [taken |-> FALSE, adr |-> 0]
    ELSE [taken |-> FALSE, adr |-> 0]

\* find_smbios_adr: [adr |-> returned address, scanned |-> BIOS scan executed]
find_smbios_adr ==
    IF Efi32Path.taken THEN [adr |-> Efi32Path.adr, scanned |-> FALSE]
    ELSE IF Efi64Path.taken THEN [adr |-> Efi64Path.adr, scanned |-> FALSE]
    ELSE [adr |-> BiosScan, scanned |-> TRUE]

----------------------------------------------------------------------------
(* Memory images: the entry point structure and the structure table *)

RECURSIVE SumBytes(_, _, _)
\* sum of the bytes s[from+1 .. to] (offsets from .. to-1)
SumBytes(s, from, to) ==
    IF from >= to \/ from >= Len(s) THEN 0
    ELSE s[from + 1] + SumBytes(s, from + 1, to)

\* smbios_t, by offset: anchor 0, checksum 4, length 5, majorversion 6,
\* minorversion 7, maxstructsize 8, revision 10, pad 11, intanchor 16,
\* intchecksum 21, tablelength 22, tableaddress 24, numstructs 28, SMBIOSrev 30
EpsSize == 31
EpsRaw(len, major, minor, tlen, taddr, nstructs, ck) ==
    [o \in 1..EpsSize |->
        CASE o \in 1..4  -> Anchor[o]
          [] o = 5       -> ck
          [] o = 6       -> len
          [] o = 7       -> major
          [] o = 8       -> minor
          [] o = 9       -> 64
          [] o \in 17..21 -> <<95, 68, 77, 73, 95>>[o - 16]
          [] o = 23      -> tlen % 256
          [] o = 24      -> tlen \div 256
          [] o = 25      -> taddr % 256
          [] o = 26      -> (taddr \div 256) % 256
          [] o = 29      -> nstructs % 256
          [] o = 30      -> nstructs \div 256
          [] o = 31      -> 36
          [] OTHER       -> 0]

\* the image with its checksum byte set: right (delta = 0) or off by delta
EpsImage(len, major, minor, tlen, taddr, nstructs, delta) ==
    LET raw == EpsRaw(len, major, minor, tlen, taddr, nstructs, 0)
        ck  == (256 - (SumBytes(raw, 0, len) % 256) + delta) % 256
    IN  EpsRaw(len, major, minor, tlen, taddr, nstructs, ck)

\* fields of the entry point structure, read through the smbios_t overlay
eps_length == eps[6]
eps_majorversion == eps[7]
eps_minorversion == eps[8]
eps_tablelength == eps[23] + 256 * eps[24]
eps_tableaddress == eps[25] + 256 * eps[26] + 65536 * eps[27] + 16777216 * eps[28]
eps_numstructs == eps[29] + 256 * eps[30]

\* the sum smbios_init is to verify: eps.length bytes from the entry point
EpsSum == SumBytes(eps, 0, eps_length) % 256

RECURSIVE Flatten(_)
Flatten(ss) == IF ss = <<>> THEN <<>> ELSE Head(ss) \o Flatten(Tail(ss))

\* the string area behind a structure: each string, a NUL; then a closing NUL
StrArea(strs) ==
    IF strs = <<>> THEN <<0, 0>>
    ELSE Flatten([i \in 1..Len(strs) |-> strs[i] \o <<0>>]) \o <<0>>

\* struct tstruct_header (type, length, handle) and the record's fixed fields
HeaderSize == 4
RecFixed(r) == <<r.type, HeaderSize + Len(r.flds), 1, 0>> \o r.flds
RecBytes(r) == RecFixed(r) \o StrArea(r.strs)

TableBytes(tbl) == Flatten([i \in 1..Len(tbl) |-> RecBytes(tbl[i])])

\* where the firmware put the table, and record i of it
TableAddr == 8
RecAddr(tbl, i) == TableAddr + Len(TableBytes(SubSeq(tbl, 1, i - 1)))

\* a firmware table that breaks the format
Damaged(bytes, dmg) ==
    CASE dmg = "nonul" -> [bytes EXCEPT ![Len(bytes)] = 32]
      [] dmg = "len0"  -> [bytes EXCEPT ![2] = 0]
      [] OTHER         -> bytes

MemImage(tbl, dmg, fill) ==
    [i \in 1..TableAddr |-> 0] \o Damaged(TableBytes(tbl), dmg)
        \o [i \in 1..MemSlack |-> fill]

\* memory reads; an address outside mem is not backed by anything
InMem(a) == a >= 0 /\ a < Len(mem)
Rd(a) == mem[a + 1]

----------------------------------------------------------------------------
(* get_tstruct_string *)

Fault == -1

RECURSIVE StringLoop(_, _)
\* the do-while loop, entered with the pointer a and the counter cnt
StringLoop(a, cnt) ==
    IF ~InMem(a) THEN Fault
    ELSE LET c == IF Rd(a) = 0 THEN cnt - 1 ELSE cnt
         IN  IF c = 0 /\ Rd(a) # 0 THEN a
             ELSE IF ~InMem(a + 1) THEN Fault
             ELSE IF Rd(a + 1) = 0 /\ Rd(a) = 0 THEN 0
             ELSE StringLoop(a + 1, c)

\* get_tstruct_string without its n-- in front of the loop
get_tstruct_string_nodec(header, idx) ==
    IF idx < 1 THEN 0
    ELSE IF ~InMem(header + 1) THEN Fault
    ELSE StringLoop(header + Rd(header + 1), idx)

get_tstruct_string(header, idx) ==
    IF idx < 1 THEN 0
    ELSE IF ~InMem(header + 1) THEN Fault
    ELSE StringLoop(header + Rd(header + 1), idx - 1)

RECURSIVE CString(_)
\* the bytes from a up to the NUL that ends them, as strlen and prints read
CString(a) ==
    IF ~InMem(a) \/ Rd(a) = 0 THEN <<>> ELSE <<Rd(a)>> \o CString(a + 1)

----------------------------------------------------------------------------
(* smbios_init, one action per step *)

\* values the uninitialised local dmi may hold when the checksum loop starts,
\* as an offset from dmi_start (line 147 declares it, line 165 reads it)
\* in front of the structure, its first byte, inside it, its end
UninitDmi == {-1, 0, EpsSize \div 2, EpsSize}
\* values of a byte in front of the entry point structure
UnknownByte == {0, 1}

\* the checksum loop started at offset u: for (; dmi < dmi_start + length; dmi++)
ChecksumLoop(u, before) ==
    IF u < 0 THEN (before + SumBytes(eps, 0, eps_length)) % 256
    ELSE SumBytes(eps, u, eps_length) % 256

\* the version gate's condition for return -1
VersionRejected == eps_majorversion < 2 /\ eps_minorversion < 3

\* RecordMatch with an early exit: the first match is kept
RecordMatchFirst(cur, type, at) ==
    IF type = TargetType /\ cur = 0 THEN at ELSE cur

\* if (header->type == 2) dmi_system_info = dmi
RecordMatch(cur, type, at) == IF type = TargetType THEN at ELSE cur

\* CountExceeded comparing against one more than the declared count
CountExceededLate(count) == count > eps_numstructs + 1

\* ++tstruct_count > eps->numstructs
CountExceeded(count) == count > eps_numstructs

smbios_init_find ==
    /\ pc = "start"
    /\ smb_adr' = find_smbios_adr.adr
    /\ scanned' = find_smbios_adr.scanned
    /\ IF find_smbios_adr.adr = 0
       THEN pc' = "done" /\ ret' = -1 /\ fail' = "noentry"
       ELSE pc' = "checksum" /\ UNCHANGED <<ret, fail>>
    /\ UNCHANGED <<locVars, imgVars, strVars, checksum, dmi, tstruct_count,
                   bodies, dmi_system_info, nullDeref, printed>>

smbios_init_checksum ==
    /\ pc = "checksum"
    /\ \E u \in UninitDmi, before \in UnknownByte :
          checksum' = ChecksumLoop(u, before)
    /\ IF checksum' # 0
       THEN pc' = "done" /\ ret' = -1 /\ fail' = "checksum"
       ELSE pc' = "version" /\ UNCHANGED <<ret, fail>>
    /\ UNCHANGED <<locVars, imgVars, strVars, smb_adr, scanned, dmi,
                   tstruct_count, bodies, dmi_system_info, nullDeref, printed>>

smbios_init_version ==
    /\ pc = "version"
    /\ IF VersionRejected
       THEN pc' = "done" /\ ret' = -1 /\ fail' = "version" /\ UNCHANGED dmi
       ELSE pc' = "walk" /\ dmi' = eps_tableaddress /\ UNCHANGED <<ret, fail>>
    /\ UNCHANGED <<locVars, imgVars, strVars, smb_adr, scanned, checksum,
                   tstruct_count, bodies, dmi_system_info, nullDeref, printed>>

\* the while test, the header read, the type test and dmi += header->length
smbios_init_walk ==
    /\ pc = "walk"
    /\ IF dmi < eps_tableaddress + eps_tablelength
       THEN IF InMem(dmi + 1)
            THEN /\ dmi_system_info' = RecordMatch(dmi_system_info, Rd(dmi), dmi)
                 /\ dmi' = dmi + Rd(dmi + 1)
                 /\ bodies' = bodies + 1
                 /\ pc' = "scan"
                 /\ UNCHANGED <<ret, fail>>
            ELSE /\ pc' = "fault"
                 /\ UNCHANGED <<dmi_system_info, dmi, bodies, ret, fail>>
       ELSE /\ pc' = "done" /\ ret' = 0
            /\ UNCHANGED <<dmi_system_info, dmi, bodies, fail>>
    /\ UNCHANGED <<locVars, imgVars, strVars, smb_adr, scanned, checksum,
                   tstruct_count, nullDeref, printed>>

\* one test of the inner while; on its exit dmi += 2 and the count check
smbios_init_scan ==
    /\ pc = "scan"
    /\ IF ~InMem(dmi) \/ (Rd(dmi) = 0 /\ ~InMem(dmi + 1))
       THEN pc' = "fault" /\ UNCHANGED <<dmi, tstruct_count, ret, fail>>
       ELSE IF Rd(dmi) = 0 /\ Rd(dmi + 1) = 0
       THEN /\ dmi' = dmi + 2
            /\ tstruct_count' = tstruct_count + 1
            /\ IF CountExceeded(tstruct_count')
               THEN pc' = "done" /\ ret' = -1 /\ fail' = "count"
               ELSE pc' = "walk" /\ UNCHANGED <<ret, fail>>
       ELSE /\ dmi' = dmi + 1
            /\ UNCHANGED <<pc, tstruct_count, ret, fail>>
    /\ UNCHANGED <<locVars, imgVars, strVars, smb_adr, scanned, checksum,
                   bodies, dmi_system_info, nullDeref, printed>>

----------------------------------------------------------------------------
(* print_smbios_startup_info *)

\* what may reach the screen once a null pointer has been read through
Garbage == {<<>>, <<[col |-> 0, text |-> <<63>>]>>}

\* dmicol = 40 - (sl1 + sl2) / 2, then the two prints
Prints(sys_man, sys_sku) ==
    LET sl1 == Len(CString(sys_man))
        sl2 == Len(CString(sys_sku))
        dmicol == 40 - ((sl1 + sl2) \div 2)
    IN  IF sl1 # 0 /\ sl2 # 0
        THEN <<[col |-> dmicol, text |-> CString(sys_man)],
               [col |-> dmicol + sl1 + 1, text |-> CString(sys_sku)]>>
        ELSE <<>>

print_smbios_startup_info ==
    /\ pc = "done"
    /\ pc' = "printed"
    /\ IF dmi_system_info = 0 \/ ~InMem(dmi_system_info + 5)
       THEN nullDeref' = (dmi_system_info = 0) /\ printed' \in Garbage
       ELSE LET sys_man == get_tstruct_string(dmi_system_info,
                                              Rd(dmi_system_info + 4))
                sys_sku == get_tstruct_string(dmi_system_info,
                                              Rd(dmi_system_info + 5))
            IN  IF sys_man = 0 \/ sys_sku = 0
                THEN nullDeref' = TRUE /\ printed' \in Garbage
                ELSE IF sys_man = Fault \/ sys_sku = Fault
                THEN nullDeref' = FALSE /\ printed' \in Garbage
                ELSE nullDeref' = FALSE /\ printed' = Prints(sys_man, sys_sku)
    /\ UNCHANGED <<locVars, imgVars, strVars, smb_adr, scanned, checksum, dmi,
                   tstruct_count, bodies, dmi_system_info, ret, fail>>

----------------------------------------------------------------------------
(* the callers of SpecLocate and SpecStr *)

call_find_smbios_adr ==
    /\ pc = "locate"
    /\ pc' = "located"
    /\ smb_adr' = find_smbios_adr.adr
    /\ scanned' = find_smbios_adr.scanned
    /\ UNCHANGED <<locVars, imgVars, strVars, checksum, dmi, tstruct_count,
                   bodies, dmi_system_info, ret, fail, nullDeref, printed>>

call_get_tstruct_string ==
    /\ pc = "string"
    /\ pc' = "returned"
    /\ str' = get_tstruct_string(hdr, n)
    /\ UNCHANGED <<locVars, imgVars, hdr, n, smb_adr, scanned, checksum, dmi,
                   tstruct_count, bodies, dmi_system_info, ret, fail,
                   nullDeref, printed>>

----------------------------------------------------------------------------
(* Initial states *)

\* addresses of low memory the model gives a content: the window's first
\* paragraph, an unaligned address, the last paragraph below 1 MiB, the first
\* above it, the last address the for loop tests and the first it does not
\* first address behind the 64 KiB window 0xF0000-0xFFFFF
WindowTop == DmiSearchStart + 65536
ProbeAddrs == {DmiSearchStart, DmiSearchStart + 8, WindowTop - DmiSearchStep,
               WindowTop, DmiSearchStart + DmiSearchLen - DmiSearchStep,
               DmiSearchStart + DmiSearchLen}

LowMems == [ProbeAddrs -> {Anchor, NoAnchor}] \cup {[a \in ProbeAddrs |-> Anchor3]}

CfgEntries == {[guid |-> SMBIOS2_GUID, table |-> EpsAddrA],
               [guid |-> SMBIOS2_GUID, table |-> EpsAddrB],
               [guid |-> SMBIOS3_GUID, table |-> EpsAddrA]}

SeqsUpTo(S, k) == UNION {[1..m -> S] : m \in 0..k}

Signatures == {"", EFI32_LOADER_SIGNATURE, EFI64_LOADER_SIGNATURE}

\* strings of a string area
SA == <<65>>
SB == <<66, 67>>
Acme == <<65, 99, 109, 101>>
BoardX == <<66, 111, 97, 114, 100, 45, 88>>

\* records of the structure tables of Spec: type 1 and type 2 records, the
\* latter with their manufacturer and productname string indexes
Records == {[type |-> 1, flds |-> <<>>, strs |-> <<>>],
            [type |-> 1, flds |-> <<>>, strs |-> <<SA>>],
            [type |-> TargetType, flds |-> <<1, 2>>, strs |-> <<SA, SB>>],
            [type |-> TargetType, flds |-> <<0, 1>>, strs |-> <<SA>>],
            [type |-> TargetType, flds |-> <<1, 3>>, strs |-> <<SA, SB>>]}

\* (majorversion, minorversion) pairs
Versions == {<<1, 2>>, <<1, 3>>, <<2, 0>>, <<2, 3>>}

\* boot environments of Spec: a BIOS machine with the entry point in the
\* window, one without, an EFI32 machine whose tables map
EnvBios(found) ==
    [sig |-> "", map |-> {}, cfg |-> <<>>,
     low |-> [a \in ProbeAddrs |->
                 IF found /\ a = WindowTop - DmiSearchStep THEN Anchor
                 ELSE NoAnchor]]
EnvEfi32 ==
    [sig |-> EFI32_LOADER_SIGNATURE, map |-> {SysTabAddr, CfgTabAddr},
     cfg |-> <<[guid |-> SMBIOS2_GUID, table |-> EpsAddrA]>>,
     low |-> [a \in ProbeAddrs |-> NoAnchor]]

\* the state smbios_init is entered in
Boot(env, x64, len, ver, delta, tbl, dmg, fill, tlen, nstructs) ==
    /\ pc = "start"
    /\ x86_64 = x64
    /\ loader_signature = env.sig
    /\ mappable = env.map
    /\ config_tables = env.cfg
    /\ lowmem = env.low
    /\ eps = EpsImage(len, ver[1], ver[2], tlen, TableAddr, nstructs, delta)
    /\ mem = MemImage(tbl, dmg, fill)
    /\ table = tbl
    /\ damage = dmg
    /\ smb_adr = 0 /\ scanned = FALSE
    /\ checksum = 0 /\ dmi = 0 /\ tstruct_count = 0 /\ bodies = 0
    /\ dmi_system_info = 0
    /\ ret = "none" /\ fail = "none"
    /\ nullDeref = FALSE /\ printed = <<>>
    /\ hdr = 0 /\ n = 0 /\ str = "none"

\* every entry point structure, over a table of at most one record
InitValidate ==
    \E env \in {EnvBios(TRUE), EnvBios(FALSE), EnvEfi32}, x64 \in BOOLEAN,
       len \in {EpsSize - 1, EpsSize}, ver \in Versions, delta \in {0, 1},
       tbl \in SeqsUpTo(Records, 1) :
        Boot(env, x64, len, ver, delta, tbl, "none", 0,
             Len(TableBytes(tbl)), Len(tbl))

\* every table, behind an entry point structure that passes the checksum
InitWalk ==
    \E ver \in {<<1, 3>>, <<2, 3>>}, tbl \in SeqsUpTo(Records, MaxStructs),
       dmg \in {"none", "nonul", "len0"}, fill \in {0, 255},
       nstructs \in 0..MaxStructs :
        /\ dmg # "none" => tbl # <<>>
        /\ \E tlen \in {0, Len(TableBytes(tbl)), Len(TableBytes(tbl)) + 1} :
              Boot(EnvBios(TRUE), FALSE, EpsSize, ver, 0, tbl, dmg, fill,
                   tlen, nstructs)

Init == InitValidate \/ InitWalk

InitLocate ==
    /\ pc = "locate"
    /\ x86_64 \in BOOLEAN
    /\ loader_signature \in Signatures
    /\ mappable \in SUBSET {SysTabAddr, CfgTabAddr}
    /\ config_tables \in SeqsUpTo(CfgEntries, MaxCfg)
    /\ lowmem \in LowMems
    /\ eps = EpsImage(EpsSize, 2, 3, 0, TableAddr, 0, 0)
    /\ mem = MemImage(<<>>, "none", 0)
    /\ table = <<>>
    /\ damage = "none"
    /\ smb_adr = 0 /\ scanned = FALSE
    /\ checksum = 0 /\ dmi = 0 /\ tstruct_count = 0 /\ bodies = 0
    /\ dmi_system_info = 0
    /\ ret = "none" /\ fail = "none"
    /\ nullDeref = FALSE /\ printed = <<>>
    /\ hdr = 0 /\ n = 0 /\ str = "none"

InitStr ==
    /\ pc = "string"
    /\ x86_64 = FALSE
    /\ loader_signature = ""
    /\ mappable = {}
    /\ config_tables = <<>>
    /\ lowmem = [a \in ProbeAddrs |-> NoAnchor]
    /\ eps = EpsImage(EpsSize, 2, 3, 0, TableAddr, 0, 0)
    /\ \E strs \in SeqsUpTo({SA, Acme, BoardX}, MaxStrs),
          flds \in {<<>>, <<1, 2>>}, fill \in {0, 255} :
          /\ table = <<[type |-> TargetType, flds |-> flds, strs |-> strs]>>
          /\ mem = MemImage(table, "none", fill)
    /\ damage = "none"
    /\ smb_adr = 0 /\ scanned = FALSE
    /\ checksum = 0 /\ dmi = 0 /\ tstruct_count = 0 /\ bodies = 0
    /\ dmi_system_info = 0
    /\ ret = "none" /\ fail = "none"
    /\ nullDeref = FALSE /\ printed = <<>>
    /\ hdr = TableAddr
    /\ n \in -1..(MaxStrs + 2)
    /\ str = "none"

----------------------------------------------------------------------------
(* Specifications *)

Next ==
    \/ smbios_init_find
    \/ smbios_init_checksum
    \/ smbios_init_version
    \/ smbios_init_walk
    \/ smbios_init_scan
    \/ print_smbios_startup_info

Spec == Init /\ [][Next]_vars

NextLocate == call_find_smbios_adr

SpecLocate == InitLocate /\ [][NextLocate]_vars

NextStr == call_get_tstruct_string

SpecStr == InitStr /\ [][NextStr]_vars

----------------------------------------------------------------------------
(* Properties *)

Max(S) == CHOOSE x \in S : \A y \in S : x >= y

\* smbios_init has returned
Returned == pc \in {"done", "printed"}
\* smbios_init is past its checksum step on an entry point it was given
ChecksumStepDone == pc \notin {"start", "checksum"} /\ fail # "noentry"
\* smbios_init is past its version gate
VersionStepDone == ChecksumStepDone /\ fail # "checksum" /\ pc # "version"

\* C1: the checksum step rejects exactly the entry points whose eps.length
\* bytes, summed from the entry point address, do not add up to zero mod 256.
C1_ChecksumDecides ==
    ChecksumStepDone => ((fail = "checksum") <=> (EpsSum # 0))

\* C2: an entry point with a valid checksum and majorversion < 2 is rejected
\* at the version gate whatever its minorversion, and its table is not walked.
C2_OldMajorRejected ==
    (VersionStepDone /\ EpsSum = 0 /\ eps_majorversion < 2)
        => (Returned /\ ret = -1 /\ fail = "version" /\ bodies = 0)

\* the table is as the format demands: every string area closed by two NULs,
\* the records ending at tableaddress + tablelength, numstructs covering them
WellFormed ==
    /\ damage = "none"
    /\ eps_tablelength = Len(TableBytes(table))
    /\ eps_numstructs >= Len(table)

TargetIndexes == {i \in 1..Len(table) : table[i].type = TargetType}

\* C3: after smbios_init returned 0 on a well-formed table, dmi_system_info
\* addresses the last record of the target type in table order (the only one
\* if there is one), and is null if the table holds none.
C3_LastMatchWins ==
    (Returned /\ ret = 0 /\ WellFormed)
        => dmi_system_info = IF TargetIndexes = {} THEN 0
                             ELSE RecAddr(table, Max(TargetIndexes))

\* C3 witness: a walk that returned 0 over two target records, the pointer
\* at the second.
C3_Witness ==
    /\ Returned /\ ret = 0 /\ WellFormed
    /\ Cardinality(TargetIndexes) >= 2
    /\ dmi_system_info = RecAddr(table, Max(TargetIndexes))
    /\ dmi_system_info # RecAddr(table, Min(TargetIndexes))

\* address of the first byte of string i of the record at hdr
StrAddr(i) ==
    hdr + Len(RecFixed(table[1]))
        + Len(Flatten([j \in 1..(i - 1) |-> table[1].strs[j] \o <<0>>]))

\* C4: over a well-formed string area of k strings, get_tstruct_string(hdr, n)
\* returns the address of the first byte of string n when 1 <= n <= k (the
\* bytes from there to the next NUL are that string), and null otherwise.
C4_StringLookup ==
    pc = "returned" =>
        IF n >= 1 /\ n <= Len(table[1].strs)
        THEN str = StrAddr(n) /\ CString(str) = table[1].strs[n]
        ELSE str = 0

\* C4 witness: index 2 of "Acme\0Board-X\0\0" gave "Board-X".
C4_Witness ==
    /\ pc = "returned"
    /\ table[1].strs = <<Acme, BoardX>>
    /\ n = 2
    /\ str # 0 /\ CString(str) = BoardX

\* the loader signature is one this build tests for
Recognized ==
    \/ loader_signature = EFI32_LOADER_SIGNATURE
    \/ x86_64 /\ loader_signature = EFI64_LOADER_SIGNATURE

\* C5 as claimed: with a recognized EFI loader signature the legacy scan is
\* never executed, and a failed map_region (system table or configuration
\* table array) gives not-found.
C5_NeverLegacyAfterEfi ==
    (pc = "located" /\ Recognized)
        => /\ ~scanned
           /\ ({SysTabAddr, CfgTabAddr} \ mappable # {} => smb_adr = 0)

\* C5 amended: with a recognized EFI loader signature and the system table
\* mapped, the legacy scan is not executed, and a failed map_region of the
\* configuration table array gives not-found; when map_region fails for the
\* system table, the legacy scan is executed and its result returned.
C5_NoLegacyOnceSystemTableMapped ==
    (pc = "located" /\ Recognized)
        => IF SysTabAddr \in mappable
           THEN ~scanned /\ (CfgTabAddr \notin mappable => smb_adr = 0)
           ELSE scanned /\ smb_adr = BiosScan

\* C5 witness: EFI32, the system table maps, the array does not, and the
\* anchor in the legacy window is not returned.
C5_Witness ==
    /\ pc = "located"
    /\ loader_signature = EFI32_LOADER_SIGNATURE
    /\ SysTabAddr \in mappable /\ CfgTabAddr \notin mappable
    /\ lowmem[DmiSearchStart] = Anchor
    /\ ~scanned /\ smb_adr = 0

\* the 16-byte aligned addresses of 0xF0000-0xFFFFF that hold "_SM_"
WindowHits ==
    {a \in DOMAIN lowmem :
        /\ a >= DmiSearchStart /\ a + 3 < WindowTop
        /\ (a - DmiSearchStart) % DmiSearchStep = 0
        /\ lowmem[a] = Anchor}

\* C6: without an EFI loader signature find_smbios_adr returns the lowest
\* aligned "_SM_" address of the window 0xF0000-0xFFFFF, and 0 if the window
\* holds none.
C6_LegacyWindow ==
    (pc = "located" /\ loader_signature = "")
        => smb_adr = IF WindowHits = {} THEN 0 ELSE Min(WindowHits)

\* C7: whenever smbios_init returns -1, dmi_system_info is null.
C7_NoPartialResult == (Returned /\ ret = -1) => dmi_system_info = 0

\* C8: smbios_init never runs off the memory, and its double-NUL search
\* examines no byte at or behind tableaddress + tablelength, so that it stops
\* within tablelength steps.
C8_ScansBounded ==
    /\ pc # "fault"
    /\ pc = "scan" => dmi < eps_tableaddress + eps_tablelength

\* C9 as claimed: the walk's loop body runs at most eps.numstructs times.
C9_AtMostNumstructs == bodies <= eps_numstructs

\* C9 amended: the walk's loop body runs at most eps.numstructs + 1 times, the
\* count guard returning -1 at the end of execution numstructs + 1; no record
\* behind the first numstructs + 1 is read or recorded.
C9_AtMostNumstructsPlusOne ==
    /\ bodies <= eps_numstructs + 1
    /\ fail = "count" => (Returned /\ ret = -1 /\ bodies = eps_numstructs + 1)
    /\ damage = "none"
           => \A i \in 1..Len(table) :
                 dmi_system_info = RecAddr(table, i) => i <= eps_numstructs + 1

\* C9 witness: a table of more records than numstructs, aborted in body
\* numstructs + 1 with that record in dmi_system_info.
C9_Witness ==
    /\ fail = "count" /\ Returned /\ ret = -1
    /\ damage = "none" /\ eps_tablelength = Len(TableBytes(table))
    /\ Len(table) > eps_numstructs + 1
    /\ bodies = eps_numstructs + 1
    /\ dmi_system_info = RecAddr(table, eps_numstructs + 1)

\* C10: print_smbios_startup_info dereferences no null pointer, and prints
\* nothing when dmi_system_info is null.
C10_NoNullDeref ==
    /\ ~nullDeref
    /\ (pc = "printed" /\ dmi_system_info = 0) => printed = <<>>

====
